---- MODULE Spec2Model ----
(***************************************************************************)
(* Model of server.py: the JSON snapshot (users, sessions, orders), the     *)
(* session manager (verify_token, register, login, logout, check_auth),    *)
(* the order repository (get_orders, create_order, update_order,           *)
(* delete_order), the sync engine (sync_data) and the store (init_db,      *)
(* load_db, save_db with the cache, the lock and the backing file).        *)
(*                                                                         *)
(* The model has two layers.  In the first, every request handler is one   *)
(* action on the snapshot: it runs verify_token (with its lazy pruning of  *)
(* expired sessions), loads the snapshot, changes it and saves it; the     *)
(* store does not fail and requests run one at a time.  In the second, a   *)
(* handler is a sequence of steps of a thread over the store: load_db,     *)
(* init_db and save_db run line by line, the snapshot dicts refer to list  *)
(* objects on a heap (dict.copy() is shallow), a write may fail and        *)
(* another process may remove or overwrite the file.                       *)
(*                                                                         *)
(* Not modelled: the timestamps createdAt, updatedAt, uploadDate, lastSync,*)
(* last_modified, the devices list of a user and the export endpoints; no  *)
(* handler below branches on them.  lastActivity, which verify_token       *)
(* writes into a user of the snapshot it loaded, is part of the second     *)
(* layer only.                                                             *)
(*                                                                         *)
(* uuid4 values are modelled as numbers: a fresh order id is an id that no *)
(* order of the collection and no client order of the request carries; a   *)
(* fresh token is the next value of a counter.                             *)
(***************************************************************************)
EXTENDS Integers, Sequences, FiniteSets, TLC

VARIABLES
    users,      \* db['users']    : sequence of user records
    sessions,   \* db['sessions'] : sequence of session records
    orders,     \* db['orders']   : sequence of order records
    now,        \* datetime.now(), in days
    nextToken,  \* the next value generate_token() returns
    last,       \* the last request: its input, the snapshot before it, its response
    db_file,            \* DB_FILE: whether it exists and parses, its content, its mtime
    db_cache,           \* db_cache: the cached snapshot dict, or None
    db_last_modified,   \* db_last_modified
    db_lock,            \* db_lock: the thread that holds it
    heap,               \* the lists and dicts the snapshot dicts refer to
    th                  \* the threads: where each is in its handler, its locals

storeVars == <<db_file, db_cache, db_last_modified, db_lock, heap, th>>

vars == <<users, sessions, orders, now, nextToken, last, storeVars>>

-----------------------------------------------------------------------------
(* Bounds of the model *)

MaxOrders == 2      \* orders in the collection
MaxVersion == 2     \* largest syncVersion a stored or submitted order carries
MaxTokens == 2      \* tokens generate_token() hands out
MaxTicks == 2       \* steps of the clock
MaxTouches == 1     \* changes of the file by another process
RecursionLimit == 2 \* calls of init_db() on the stack when RecursionError is raised

(* Program constants *)

SessionDays == 30   \* timedelta(days=30)

(* Modelling constants *)

TickDays == SessionDays \div 2   \* the clock advances by half the life of a session
NoId == 0           \* a missing or empty id, token or userId (falsy in Python)
SeedAdminId == 101  \* the uuid of the seeded administrator
ClientLocalId == 9  \* an order id made up by a client, unknown to the server

-----------------------------------------------------------------------------
(* Emails are sequences of characters, so that strip() and lower() compute *)

Chars == {"a", "A", "b", "B", " "}

lower_char(c) == CASE c = "A" -> "a" [] c = "B" -> "b" [] OTHER -> c

lower(s) == [i \in 1..Len(s) |-> lower_char(s[i])]

RECURSIVE lstrip(_)
lstrip(s) == IF s # <<>> /\ Head(s) = " " THEN lstrip(Tail(s)) ELSE s

RECURSIVE rstrip(_)
rstrip(s) ==
    IF s # <<>> /\ s[Len(s)] = " " THEN rstrip(SubSeq(s, 1, Len(s) - 1)) ELSE s

strip(s) == rstrip(lstrip(s))

\* the email trimmed, its letters left in their case
normalize_email_keeps_case(raw) == strip(raw)

\* data.get('email', '').strip().lower()
normalize_email(raw) == lower(strip(raw))

AdminEmail == <<"a">>          \* '12abc202@gmail.com'
AdminPassword == "Abu_1610"

hash_password(p) == <<"sha256", p>>

-----------------------------------------------------------------------------
(* Records of the snapshot *)

NoUser == [id |-> NoId, email |-> <<>>, password |-> <<>>, isAdmin |-> FALSE]

SeedAdmin ==
    [id |-> SeedAdminId, email |-> AdminEmail,
     password |-> hash_password(AdminPassword), isAdmin |-> TRUE]

\* 'settings' of the default snapshot
default_settings ==
    [kgz_rate |-> "88.5", company_name |-> "Cargo Management System",
     company_phone |-> "+996 XXX XXX XXX"]

\* the snapshot init_db writes when there is no file
default_db ==
    [users |-> <<SeedAdmin>>, orders |-> <<>>, sessions |-> <<>>,
     settings |-> default_settings]

Range(s) == {s[i] : i \in 1..Len(s)}

\* the first index at which the sequence of booleans holds TRUE, 0 when
\* there is none: the element at which a search loop stops
FirstIndex(hits) ==
    IF \E i \in DOMAIN hits : hits[i]
    THEN CHOOSE i \in DOMAIN hits : hits[i] /\ \A j \in 1..(i - 1) : ~hits[j]
    ELSE 0

RemoveAt(s, i) == SubSeq(s, 1, i - 1) \o SubSeq(s, i + 1, Len(s))

-----------------------------------------------------------------------------
(* verify_token *)

\* session_active with the bound of 30 days included
session_active_inclusive(s, t) == t - s.created <= SessionDays

\* datetime.now() - created < timedelta(days=30)
session_active(s, t) == t - s.created < SessionDays

\* the user the inner loop finds for a session: the first user with that id
user_of_session(s, us) ==
    LET i == FirstIndex([n \in 1..Len(us) |-> us[n].id = s.user_id])
    IN  IF i = 0 THEN NoUser ELSE us[i]

\* verify_loop that takes any active session for a match
RECURSIVE verify_loop_any_token(_, _, _, _, _)
verify_loop_any_token(ss, token, us, t, user) ==
    IF ss = <<>> THEN user
    ELSE LET s == Head(ss)
             u == user_of_session(s, us)
             hit == session_active(s, t) /\ u # NoUser
         IN  verify_loop_any_token(Tail(ss), token, us, t, IF hit THEN u ELSE user)

\* the loop over the sessions: the user of the last active session that
\* carries the token and whose user exists
RECURSIVE verify_loop(_, _, _, _, _)
verify_loop(ss, token, us, t, user) ==
    IF ss = <<>> THEN user
    ELSE LET s == Head(ss)
             u == user_of_session(s, us)
             hit == session_active(s, t) /\ s.token = token /\ u # NoUser
         IN  verify_loop(Tail(ss), token, us, t, IF hit THEN u ELSE user)

\* verify_token(token): the user it returns (NoUser for None) and the session
\* list the snapshot holds afterwards
verify_token(token, us, ss, t) ==
    IF token = NoId
    THEN [user |-> NoUser, sessions |-> ss]
    ELSE [user |-> verify_loop(ss, token, us, t, NoUser),
          sessions |-> SelectSeq(ss, LAMBDA s : session_active(s, t))]

-----------------------------------------------------------------------------
(* Orders *)

FileNames == {"f1", "f2"}
Datas == {"d1", "d2"}

\* the user id and email an order names as its owner
owned_by(o, user) == o.userId = user.id

\* a fresh uuid4 for an order: no order in `taken` carries it, no client made it
fresh_order_id(taken) ==
    LET free == {n \in 1..(Cardinality(taken) + 2) : n \notin taken /\ n # ClientLocalId}
    IN  CHOOSE n \in free : \A m \in free : n <= m

\* get_orders without the filter on the owner
get_orders_unfiltered(user, os) == os

\* GET /api/orders: the orders the response lists
get_orders(user, os) ==
    IF ~user.isAdmin THEN SelectSeq(os, LAMBDA o : owned_by(o, user)) ELSE os

\* POST /api/orders: the collection afterwards, the order returned and
\* whether it reports 'updated' (a re-upload) or 'created'
create_order(user, fileName, data, os) ==
    LET i == FirstIndex([n \in 1..Len(os) |-> os[n].fileName = fileName /\ owned_by(os[n], user)])
        existing == [os[i] EXCEPT !.data = data, !.syncVersion = @ + 1]
        new_order == [id |-> fresh_order_id({o.id : o \in Range(os)}),
                      userId |-> user.id, userEmail |-> user.email,
                      fileName |-> fileName, data |-> data, syncVersion |-> 1]
    IN  IF i # 0
        THEN [orders |-> [os EXCEPT ![i] = existing], order |-> existing,
              updated |-> TRUE]
        ELSE [orders |-> Append(os, new_order), order |-> new_order,
              updated |-> FALSE]

\* order.update(data): the fields the patch names replace the order's
dict_update(o, patch) ==
    [f \in DOMAIN o |-> IF f \in DOMAIN patch THEN patch[f] ELSE o[f]]

\* may_modify without the exemption of administrators
may_modify_owner_only(user, o) == owned_by(o, user)

\* the ownership check of update_order and delete_order
may_modify(user, o) == user.isAdmin \/ owned_by(o, user)

\* PUT /api/orders/<order_id>
update_order(user, order_id, patch, os) ==
    LET i == FirstIndex([n \in 1..Len(os) |-> os[n].id = order_id])
        patched == dict_update(os[i], patch)
        order == [patched EXCEPT !.syncVersion = @ + 1]
    IN  IF i = 0 THEN [status |-> 404, orders |-> os, order |-> <<>>]
        ELSE IF ~may_modify(user, os[i])
        THEN [status |-> 403, orders |-> os, order |-> <<>>]
        ELSE [status |-> 200, orders |-> [os EXCEPT ![i] = order],
              order |-> <<order>>]

\* DELETE /api/orders/<order_id>
delete_order(user, order_id, os) ==
    LET i == FirstIndex([n \in 1..Len(os) |-> os[n].id = order_id])
    IN  IF i = 0 THEN [status |-> 404, orders |-> os]
        ELSE IF ~may_modify(user, os[i]) THEN [status |-> 403, orders |-> os]
        ELSE [status |-> 200, orders |-> RemoveAt(os, i)]

-----------------------------------------------------------------------------
(* sync_data *)

OrderIds(os) == {os[i].id : i \in 1..Len(os)}

\* merged_orders[o.id] = o on a dict that keeps insertion order
dict_put(m, o) ==
    LET i == FirstIndex([n \in 1..Len(m) |-> m[n].id = o.id])
    IN  IF i = 0 THEN Append(m, o) ELSE [m EXCEPT ![i] = o]

\* merged_orders[order_id], for an id the dict holds
dict_get(m, id) == m[FirstIndex([n \in 1..Len(m) |-> m[n].id = id])]

\* seed_merge that stops after the first server order
seed_merge_first_only(server_orders, m) ==
    IF server_orders = <<>> THEN m ELSE dict_put(m, Head(server_orders))

\* the first loop: the merge map seeded from the scoped server orders
RECURSIVE seed_merge(_, _)
seed_merge(server_orders, m) ==
    IF server_orders = <<>> THEN m
    ELSE seed_merge(Tail(server_orders), dict_put(m, Head(server_orders)))

\* client_wins with ties going to the client
client_wins_or_ties(client_ver, server_ver) == client_ver >= server_ver

\* the comparison that lets a client copy replace the entry of the merge map
client_wins(client_ver, server_ver) == client_ver > server_ver

\* merge_client_order that keeps the syncVersion a new client order carries
merge_client_order_keeps_version(c, m, user, taken) ==
    IF c.id = NoId
    THEN dict_put(m, [c EXCEPT !.id = fresh_order_id(taken \cup OrderIds(m)),
                               !.userId = user.id, !.userEmail = user.email])
    ELSE IF c.id \in OrderIds(m)
    THEN IF client_wins(c.syncVersion, dict_get(m, c.id).syncVersion)
         THEN dict_put(m, c)
         ELSE m
    ELSE dict_put(m, [c EXCEPT !.userId = user.id, !.userEmail = user.email])

\* one round of the second loop, for the client order c
merge_client_order(c, m, user, taken) ==
    IF c.id = NoId
    THEN dict_put(m, [c EXCEPT !.id = fresh_order_id(taken \cup OrderIds(m)),
                               !.userId = user.id, !.userEmail = user.email,
                               !.syncVersion = 1])
    ELSE IF c.id \in OrderIds(m)
    THEN IF client_wins(c.syncVersion, dict_get(m, c.id).syncVersion)
         THEN dict_put(m, c)
         ELSE m
    ELSE dict_put(m, [c EXCEPT !.userId = user.id, !.userEmail = user.email])

\* the second loop, over the client orders in payload order
RECURSIVE merge_loop(_, _, _, _)
merge_loop(client_orders, m, user, taken) ==
    IF client_orders = <<>> THEN m
    ELSE merge_loop(Tail(client_orders),
                    merge_client_order(Head(client_orders), m, user, taken),
                    user, taken)

\* the server orders the merge map is seeded from
scoped_orders(user, os) ==
    IF ~user.isAdmin THEN SelectSeq(os, LAMBDA o : owned_by(o, user)) ELSE os

\* the filter that takes the caller's merged orders out of the collection
kept_orders(user, os, m) ==
    SelectSeq(os, LAMBDA o : o.userId # user.id \/ o.id \notin OrderIds(m))

\* POST /api/sync: the collection afterwards and the merged orders returned
sync_data(user, client_orders, os) ==
    LET taken == OrderIds(os) \cup OrderIds(client_orders)
        seeded == seed_merge(scoped_orders(user, os), <<>>)
        merged_orders == merge_loop(client_orders, seeded, user, taken)
    IN  [orders |-> kept_orders(user, os, merged_orders) \o merged_orders,
         merged |-> merged_orders]

-----------------------------------------------------------------------------
(* The requests a client may send *)

RawEmails == {<<"b">>, <<" ", "B">>, <<"A">>, <<" ">>}
Passwords == {"p", AdminPassword, ""}

\* bearer tokens a request may carry: none, or any token handed out so far
Tokens == 0..(nextToken - 1)

NoPatch == [none |-> NoId]

\* request bodies of PUT /api/orders/<id>
Patches(os) ==
    {[data |-> "d2"], [syncVersion |-> 0], [fileName |-> "f2"]}
        \cup {[userId |-> u.id, userEmail |-> u.email] : u \in Range(users)}
        \cup {[id |-> i] : i \in OrderIds(os)}

\* order ids a request may name: those of the collection and one it has not
RequestIds(os) == OrderIds(os) \cup {ClientLocalId}

other_data(d) == IF d = "d1" THEN "d2" ELSE "d1"

\* client orders of a sync payload: orders created on the client (no id),
\* client-side edits of an order of the collection at some version, and an
\* order carrying an id the server does not know
NewClientOrders ==
    {[id |-> NoId, userId |-> NoId, userEmail |-> <<>>, fileName |-> f,
      data |-> "d1", syncVersion |-> MaxVersion] : f \in FileNames}

EditedClientOrders(os) ==
    {[o EXCEPT !.data = other_data(@), !.syncVersion = v] :
        o \in Range(os), v \in 1..MaxVersion}

UnknownClientOrders ==
    {[id |-> ClientLocalId, userId |-> NoId, userEmail |-> <<>>,
      fileName |-> "f1", data |-> "d2", syncVersion |-> 1]}

\* an edited order that also names another owner
ForgedClientOrders(os) ==
    {[o EXCEPT !.userId = u.id, !.userEmail = u.email, !.syncVersion = MaxVersion] :
        o \in Range(os), u \in Range(users)}

ClientOrders(os) == NewClientOrders \cup EditedClientOrders(os) \cup UnknownClientOrders

\* payloads of up to two client orders; the first of two is a new or an
\* edited order
Payloads(os) ==
    {<<>>} \cup {<<c>> : c \in ClientOrders(os) \cup ForgedClientOrders(os)}
           \cup {<<c, d>> : c \in NewClientOrders \cup EditedClientOrders(os),
                            d \in ClientOrders(os)}

-----------------------------------------------------------------------------
(* The last request and its response *)

Blank ==
    [op |-> "none", token |-> NoId, user |-> NoUser, email |-> <<>>,
     password |-> "", fileName |-> "", data |-> "", orderId |-> NoId,
     patch |-> NoPatch, payload |-> <<>>, preOrders |-> <<>>,
     preSessions |-> <<>>, preUsers |-> <<>>, status |-> 0, order |-> <<>>,
     list |-> <<>>, updated |-> FALSE, newToken |-> NoId]

Request(op, token) ==
    [Blank EXCEPT !.op = op, !.token = token, !.preOrders = orders,
                  !.preSessions = sessions, !.preUsers = users]

\* no request is being handled
Idle == last = Blank

\* the response of the last request has been delivered
Respond ==
    /\ ~Idle
    /\ last' = Blank
    /\ UNCHANGED <<users, sessions, orders, now, nextToken>>
    /\ UNCHANGED storeVars

-----------------------------------------------------------------------------
(* The store: the backing file, the cache, the lock and the threads that   *)
(* run load_db, save_db, init_db and the handlers step by step             *)

Threads == {1, 2}
NoThread == 0

\* the objects a snapshot refers to: the three lists and the settings dict
Fields == {"users", "orders", "sessions", "settings"}

\* object identities: per field, one for the cache and one for each thread
Slots == 1..(Cardinality(Threads) + 1)

\* None: no cached snapshot, no snapshot held
NoSnapshot == [none |-> TRUE]

\* the objects a snapshot dict refers to hold these values
deref(h, snap) == [f \in Fields |-> h[f][snap[f]]]

\* the snapshot dicts the threads other than `except` hold as db or data
held(t_h, except) ==
    {t_h[u].db : u \in Threads \ except} \cup {t_h[u].data : u \in Threads \ except}

\* the objects of a field some snapshot dict of `snaps` refers to
referenced(f, snaps) == {s[f] : s \in snaps \ {NoSnapshot}}

\* objects nothing refers to are gone
collect(h, cache, t_h) ==
    [f \in Fields |-> [k \in Slots |->
        IF k \in referenced(f, {cache} \cup held(t_h, {})) THEN h[f][k]
        ELSE default_db[f]]]

\* a new object of a field, next to the objects the snapshots of `snaps` hold
alloc(f, snaps) ==
    LET free == Slots \ referenced(f, snaps)
    IN  CHOOSE k \in free : \A j \in free : k <= j

\* a dict of new objects: json.load(f), or the default_db literal
new_snapshot(snaps) == [f \in Fields |-> alloc(f, snaps)]

\* the heap once the objects of `snap` hold the values of `v`
store_value(h, snap, v) == [f \in Fields |-> [h[f] EXCEPT ![snap[f]] = v[f]]]

\* the backing file
missing_file == [exists |-> FALSE, valid |-> FALSE, content |-> default_db, mtime |-> 0]
corrupt_file(t) == [exists |-> TRUE, valid |-> FALSE, content |-> default_db, mtime |-> t]
written_file(v, t) == [exists |-> TRUE, valid |-> TRUE, content |-> v, mtime |-> t]

\* a thread that runs nothing
Local0 ==
    [pc |-> "idle", stack |-> <<>>, depth |-> 0, db |-> NoSnapshot,
     data |-> NoSnapshot, ok |-> TRUE, path |-> "none", locked |-> FALSE,
     ev |-> "none", writes |-> 0, tok |-> NoId, req |-> Blank,
     began |-> NoSnapshot, pre |-> NoSnapshot, loaded |-> NoSnapshot,
     fresh_save |-> NoSnapshot, after_save |-> NoSnapshot, watch |-> FALSE]

\* what a thread did is recorded for the properties when it is watched
keep(fr) ==
    IF fr.watch THEN fr
    ELSE [fr EXCEPT !.ok = TRUE, !.path = "none", !.locked = FALSE,
                    !.ev = "none", !.writes = 0, !.began = NoSnapshot,
                    !.pre = NoSnapshot, !.loaded = NoSnapshot,
                    !.fresh_save = NoSnapshot, !.after_save = NoSnapshot]

\* the store after the process started on a file written earlier
StoreAtRest(file, watched) ==
    /\ db_file = file
    /\ db_cache = NoSnapshot
    /\ db_last_modified = 0
    /\ db_lock = NoThread
    /\ heap = [f \in Fields |-> [k \in Slots |-> default_db[f]]]
    /\ th = [t \in Threads |-> [Local0 EXCEPT !.watch = (t \in watched)]]

-----------------------------------------------------------------------------
\* the state after init_db() seeded the file; the threads run nothing
Init ==
    /\ users = default_db.users
    /\ sessions = default_db.sessions
    /\ orders = default_db.orders
    /\ now = 0
    /\ nextToken = 1
    /\ last = Blank
    /\ StoreAtRest(written_file(default_db, 0), {})

-----------------------------------------------------------------------------
(* Session manager *)

\* the passing of time
Tick ==
    /\ Idle
    /\ now + TickDays <= MaxTicks * TickDays
    /\ now' = now + TickDays
    /\ last' = last
    /\ UNCHANGED <<users, sessions, orders, nextToken>>
    /\ UNCHANGED storeVars

\* POST /api/auth/register
RegisterWith(credentials) ==
    /\ Idle
    /\ \E cred \in credentials :
        LET raw == cred[1]
            password == cred[2]
            email == normalize_email(raw)
            req == [Request("register", NoId) EXCEPT !.email = raw,
                                                     !.password = password]
            new_user == [id |-> SeedAdminId + Len(users), email |-> email,
                         password |-> hash_password(password),
                         isAdmin |-> email = AdminEmail]
        IN  /\ IF email = <<>> \/ password = ""
               THEN /\ last' = [req EXCEPT !.status = 400]
                    /\ UNCHANGED <<users, sessions, nextToken>>
               ELSE IF \E i \in 1..Len(users) : users[i].email = email
               THEN /\ last' = [req EXCEPT !.status = 400]
                    /\ UNCHANGED <<users, sessions, nextToken>>
               ELSE /\ nextToken <= MaxTokens
                    /\ users' = Append(users, new_user)
                    /\ sessions' = Append(sessions,
                           [token |-> nextToken, user_id |-> new_user.id,
                            created |-> now])
                    /\ nextToken' = nextToken + 1
                    /\ last' = [req EXCEPT !.status = 201, !.user = new_user,
                                           !.newToken = nextToken]
            /\ UNCHANGED <<orders, now>>
    /\ UNCHANGED storeVars

\* POST /api/auth/login
LoginWith(credentials) ==
    /\ Idle
    /\ \E cred \in credentials :
        LET raw == cred[1]
            password == cred[2]
            email == normalize_email(raw)
            req == [Request("login", NoId) EXCEPT !.email = raw,
                                                  !.password = password]
            i == FirstIndex([n \in 1..Len(users) |-> users[n].email = email /\ users[n].password = hash_password(password)])
        IN  /\ IF email = <<>> \/ password = ""
               THEN /\ last' = [req EXCEPT !.status = 400]
                    /\ UNCHANGED <<sessions, nextToken>>
               ELSE IF i = 0
               THEN /\ last' = [req EXCEPT !.status = 401]
                    /\ UNCHANGED <<sessions, nextToken>>
               ELSE /\ nextToken <= MaxTokens
                    /\ sessions' = Append(sessions,
                           [token |-> nextToken, user_id |-> users[i].id,
                            created |-> now])
                    /\ nextToken' = nextToken + 1
                    /\ last' = [req EXCEPT !.status = 200, !.user = users[i],
                                           !.newToken = nextToken]
            /\ UNCHANGED <<users, orders, now>>
    /\ UNCHANGED storeVars

\* the requests of the session manager draw the email and the password from
\* every combination
Register == RegisterWith(RawEmails \X {"p", ""})

Login == LoginWith(RawEmails \X Passwords)

\* the requests of the order repository are sent by an administrator who
\* logged in and a user who registered
Join == RegisterWith({<<<<" ", "B">>, "p">>})

SignIn == LoginWith({<<<<"A">>, AdminPassword>>, <<<<"b">>, "p">>})

\* logout that drops every session
logout_drops_all(token, ss) == IF token # NoId THEN <<>> ELSE ss

\* the session list logout saves: [s for s in sessions if s['token'] != token]
logout_sessions(token, ss) ==
    IF token # NoId THEN SelectSeq(ss, LAMBDA s : s.token # token) ELSE ss

\* POST /api/auth/logout
Logout ==
    /\ Idle
    /\ \E token \in Tokens :
        /\ sessions' = logout_sessions(token, sessions)
        /\ last' = [Request("logout", token) EXCEPT !.status = 200]
        /\ UNCHANGED <<users, orders, now, nextToken>>
    /\ UNCHANGED storeVars

\* GET /api/auth/check
CheckAuth ==
    /\ Idle
    /\ \E token \in Tokens :
        LET v == verify_token(token, users, sessions, now)
        IN  /\ sessions' = v.sessions
            /\ last' = [Request("check", token) EXCEPT
                           !.user = v.user,
                           !.status = IF v.user # NoUser THEN 200 ELSE 401]
            /\ UNCHANGED <<users, orders, now, nextToken>>
    /\ UNCHANGED storeVars

-----------------------------------------------------------------------------
(* Order repository and sync engine *)

\* the response of a handler whose verify_token call returned None
Unauthorized(op, token) ==
    /\ orders' = orders
    /\ last' = [Request(op, token) EXCEPT !.status = 401]

\* GET /api/orders
GetOrders ==
    /\ Idle
    /\ \E token \in Tokens :
        LET v == verify_token(token, users, sessions, now)
        IN  /\ sessions' = v.sessions
            /\ IF v.user = NoUser
               THEN Unauthorized("list", token)
               ELSE /\ orders' = orders
                    /\ last' = [Request("list", token) EXCEPT
                                   !.user = v.user, !.status = 200,
                                   !.list = get_orders(v.user, orders)]
            /\ UNCHANGED <<users, now, nextToken>>
    /\ UNCHANGED storeVars

\* POST /api/orders
CreateOrder ==
    /\ Idle
    /\ \E token \in Tokens :
        LET v == verify_token(token, users, sessions, now)
        IN  /\ sessions' = v.sessions
            /\ IF v.user = NoUser
               THEN Unauthorized("create", token)
               ELSE \E fileName \in FileNames, data \in Datas :
                        LET r == create_order(v.user, fileName, data, orders)
                        IN  /\ Len(r.orders) <= MaxOrders
                            /\ r.order.syncVersion <= MaxVersion
                            /\ orders' = r.orders
                            /\ last' = [Request("create", token) EXCEPT
                                           !.user = v.user, !.fileName = fileName,
                                           !.data = data,
                                           !.status = IF r.updated THEN 200 ELSE 201,
                                           !.order = <<r.order>>,
                                           !.updated = r.updated]
            /\ UNCHANGED <<users, now, nextToken>>
    /\ UNCHANGED storeVars

\* PUT /api/orders/<order_id>
UpdateOrder ==
    /\ Idle
    /\ \E token \in Tokens :
        LET v == verify_token(token, users, sessions, now)
        IN  /\ sessions' = v.sessions
            /\ IF v.user = NoUser
               THEN Unauthorized("update", token)
               ELSE \E order_id \in RequestIds(orders), patch \in Patches(orders) :
                        LET r == update_order(v.user, order_id, patch, orders)
                        IN  /\ \A i \in 1..Len(r.orders) :
                                   r.orders[i].syncVersion <= MaxVersion
                            /\ orders' = r.orders
                            /\ last' = [Request("update", token) EXCEPT
                                           !.user = v.user, !.orderId = order_id,
                                           !.patch = patch, !.status = r.status,
                                           !.order = r.order]
            /\ UNCHANGED <<users, now, nextToken>>
    /\ UNCHANGED storeVars

\* DELETE /api/orders/<order_id>
DeleteOrder ==
    /\ Idle
    /\ \E token \in Tokens :
        LET v == verify_token(token, users, sessions, now)
        IN  /\ sessions' = v.sessions
            /\ IF v.user = NoUser
               THEN Unauthorized("delete", token)
               ELSE \E order_id \in RequestIds(orders) :
                        LET r == delete_order(v.user, order_id, orders)
                        IN  /\ orders' = r.orders
                            /\ last' = [Request("delete", token) EXCEPT
                                           !.user = v.user, !.orderId = order_id,
                                           !.status = r.status]
            /\ UNCHANGED <<users, now, nextToken>>
    /\ UNCHANGED storeVars

\* POST /api/sync
SyncData ==
    /\ Idle
    /\ \E token \in Tokens :
        LET v == verify_token(token, users, sessions, now)
        IN  /\ sessions' = v.sessions
            /\ IF v.user = NoUser
               THEN Unauthorized("sync", token)
               ELSE \E payload \in Payloads(orders) :
                        LET r == sync_data(v.user, payload, orders)
                        IN  /\ Len(r.orders) <= MaxOrders
                            /\ orders' = r.orders
                            /\ last' = [Request("sync", token) EXCEPT
                                           !.user = v.user, !.payload = payload,
                                           !.status = 200, !.list = r.merged]
            /\ UNCHANGED <<users, now, nextToken>>
    /\ UNCHANGED storeVars

-----------------------------------------------------------------------------
(* load_db, save_db, init_db *)

\* load_db with a cache that counts as fresh only when it is newer than the
\* file
cache_newer ==
    /\ db_cache # NoSnapshot
    /\ db_file.exists
    /\ db_file.mtime < db_last_modified

\* load_db, line 97: a cached snapshot, and a file that is not newer
cache_fresh ==
    /\ db_cache # NoSnapshot
    /\ db_file.exists
    /\ db_file.mtime <= db_last_modified

\* the value of the cached snapshot, NoSnapshot when there is none
cache_value == IF db_cache = NoSnapshot THEN NoSnapshot ELSE deref(heap, db_cache)

\* the snapshot the next load_db call returns when nothing fails
current ==
    IF cache_fresh THEN cache_value
    ELSE IF db_file.exists /\ db_file.valid THEN db_file.content
    ELSE default_db

\* a call of load_db()
enter_load(fr) ==
    [fr EXCEPT !.pc = "load", !.db = NoSnapshot, !.data = NoSnapshot,
               !.locked = FALSE, !.ev = "none"]

\* load_db returns `snap`, whose objects hold `val`, to the code that
\* called it (through init_db and load_db, when these called each other)
load_return(fr, snap, val, path) ==
    [fr EXCEPT !.pc = Head(fr.stack), !.stack = Tail(fr.stack), !.depth = 0,
               !.db = snap, !.path = path, !.ev = "load_ret", !.loaded = val,
               !.after_save = fr.fresh_save, !.fresh_save = NoSnapshot]

\* a call of save_db(data) that returns to `back`
call_save(fr, data, back) ==
    [fr EXCEPT !.pc = "save_lock", !.data = data, !.ev = "none",
               !.stack = <<back>> \o fr.stack,
               !.pre = [cache |-> db_cache, value |-> cache_value,
                        stamp |-> db_last_modified]]

\* the handler returns
done(fr, status) ==
    [fr EXCEPT !.pc = "done", !.stack = <<>>, !.depth = 0, !.ev = "reply",
               !.db = NoSnapshot, !.data = NoSnapshot, !.req.status = status]

\* an exception leaves load_db: RecursionError
raised(fr) ==
    [fr EXCEPT !.pc = "done", !.stack = <<>>, !.depth = 0, !.ev = "raise",
               !.db = NoSnapshot, !.data = NoSnapshot, !.req.status = 500]

\* with db_lock: the lock is taken when no thread holds it
may_acquire_always(lock) == TRUE

may_acquire(lock) == lock = NoThread

\* load_db, lines 97-100: the cache hit path
LoadCheck(t) ==
    /\ th[t].pc = "load"
    /\ th' = [th EXCEPT ![t] = keep(
                 IF cache_fresh
                 THEN load_return(th[t], db_cache, cache_value, "hit")
                 ELSE [th[t] EXCEPT !.pc = "load_lock", !.ev = "none"])]
    /\ heap' = collect(heap, db_cache, th')
    /\ UNCHANGED <<db_file, db_cache, db_last_modified, db_lock>>
    /\ UNCHANGED <<users, sessions, orders, now, nextToken, last>>

\* load_db, line 103: with db_lock
LoadLock(t) ==
    /\ th[t].pc = "load_lock"
    /\ may_acquire(db_lock)
    /\ db_lock' = t
    /\ th' = [th EXCEPT ![t] = keep([th[t] EXCEPT !.pc = "load_read",
                                                  !.locked = TRUE,
                                                  !.ev = "none"])]
    /\ UNCHANGED <<db_file, db_cache, db_last_modified, heap>>
    /\ UNCHANGED <<users, sessions, orders, now, nextToken, last>>

\* load_db with init_db() called inside the with block
lock_kept_at_fallback(t) == t

\* load_db, lines 103-109: the except clause is outside the with block, so
\* the lock has been released when init_db() is called
lock_at_fallback(t) == NoThread

\* load_db, lines 104-109: the file is opened and parsed, the cache is set
\* and a copy returned; a missing or unparsable file raises, the lock is
\* released and init_db() is called
LoadRead(t) ==
    /\ th[t].pc = "load_read"
    /\ IF db_file.exists /\ db_file.valid
       THEN LET snap == new_snapshot(held(th, {}))
                h2 == store_value(heap, snap, db_file.content)
            IN  /\ db_lock' = NoThread
                /\ db_cache' = snap
                /\ db_last_modified' = now
                /\ th' = [th EXCEPT ![t] = keep(
                             load_return(th[t], snap, db_file.content, "file"))]
                /\ heap' = collect(h2, snap, th')
       ELSE /\ db_lock' = lock_at_fallback(t)
            /\ th' = [th EXCEPT ![t] = keep([th[t] EXCEPT !.pc = "init",
                                                          !.ev = "none"])]
            /\ UNCHANGED <<db_cache, db_last_modified, heap>>
    /\ UNCHANGED db_file
    /\ UNCHANGED <<users, sessions, orders, now, nextToken, last>>

\* init_db that writes the default snapshot whether or not there is a file
init_writes_always(file) == TRUE

\* init_db, line 63: if not os.path.exists(DB_FILE)
init_writes_default(file) == ~file.exists

\* init_db, lines 63-86 and 89: without a file, save_db(default_db); with a
\* file, load_db().  load_db and init_db call each other without end when
\* the file stays unreadable: the interpreter raises RecursionError
InitDb(t) ==
    /\ th[t].pc = "init"
    /\ IF th[t].depth >= RecursionLimit
       THEN /\ th' = [th EXCEPT ![t] = keep(raised(th[t]))]
            /\ heap' = collect(heap, db_cache, th')
       ELSE IF init_writes_default(db_file)
       THEN LET snap == new_snapshot({db_cache} \cup held(th, {t}))
                h2 == store_value(heap, snap, default_db)
                fr == [th[t] EXCEPT !.depth = @ + 1]
            IN  /\ th' = [th EXCEPT ![t] = keep(call_save(fr, snap, "init_cache"))]
                /\ heap' = collect(h2, db_cache, th')
       ELSE /\ th' = [th EXCEPT ![t] = keep(
                         enter_load([th[t] EXCEPT !.depth = @ + 1]))]
            /\ heap' = collect(heap, db_cache, th')
    /\ UNCHANGED <<db_file, db_cache, db_last_modified, db_lock>>
    /\ UNCHANGED <<users, sessions, orders, now, nextToken, last>>

\* init_db, lines 87-89: db_cache = default_db, then load_db()
InitCache(t) ==
    /\ th[t].pc = "init_cache"
    /\ db_cache' = th[t].data
    /\ db_last_modified' = now
    /\ th' = [th EXCEPT ![t] = keep(enter_load(th[t]))]
    /\ heap' = collect(heap, db_cache', th')
    /\ UNCHANGED <<db_file, db_lock>>
    /\ UNCHANGED <<users, sessions, orders, now, nextToken, last>>

\* save_db, line 116: with db_lock
SaveLock(t) ==
    /\ th[t].pc = "save_lock"
    /\ may_acquire(db_lock)
    /\ db_lock' = t
    /\ th' = [th EXCEPT ![t] = keep([th[t] EXCEPT !.pc = "save_write",
                                                  !.ev = "none"])]
    /\ UNCHANGED <<db_file, db_cache, db_last_modified, heap>>
    /\ UNCHANGED <<users, sessions, orders, now, nextToken, last>>

\* save_db that sets the cache before it writes
cache_after_write_always(outcome, cache, data) == data

\* save_db, lines 119-122: db_cache = data.copy() is reached when the write
\* raised nothing
cache_after_write(outcome, cache, data) ==
    IF outcome = "written" THEN data ELSE cache

\* what the physical write does: the file is written; open() fails and the
\* file is as it was; json.dump fails after open() truncated the file
WriteOutcomes == {"written", "refused", "torn"}

\* save_db, lines 117-128: the file is written, the cache set to a copy of
\* data and True returned; a failed write returns False.  Either way the
\* lock is released.
SaveWrite(t, outcomes) ==
    /\ th[t].pc = "save_write"
    /\ db_lock' = NoThread
    /\ \E outcome \in outcomes :
        LET value == deref(heap, th[t].data)
            fr == [th[t] EXCEPT !.pc = Head(th[t].stack),
                                !.stack = Tail(th[t].stack),
                                !.ev = "save_ret",
                                !.ok = (outcome = "written"),
                                !.writes = IF outcome = "refused" THEN @ ELSE @ + 1,
                                !.fresh_save = IF outcome = "written"
                                               THEN value ELSE NoSnapshot]
        IN  /\ th' = [th EXCEPT ![t] = keep(fr)]
            /\ IF outcome = "written"
               THEN /\ db_file' = written_file(value, now)
                    /\ db_last_modified' = now
               ELSE /\ db_file' = IF outcome = "torn" THEN corrupt_file(now)
                                  ELSE db_file
                    /\ UNCHANGED db_last_modified
            /\ db_cache' = cache_after_write(outcome, db_cache, th[t].data)
    /\ heap' = collect(heap, db_cache', th')
    /\ UNCHANGED <<users, sessions, orders, now, nextToken, last>>

-----------------------------------------------------------------------------
(* The handlers, step by step over the store *)

\* the requests the threads run
StoreRequests ==
    {Request("init", NoId), Request("get_setting", NoId)}
    \cup {Request("check", token) : token \in Tokens}
    \cup {Request("logout", token) : token \in Tokens}
    \cup {[Request("register", NoId) EXCEPT !.email = <<" ", "B">>, !.password = "p"]}
    \cup {[Request("login", NoId) EXCEPT !.email = c[1], !.password = c[2]] :
             c \in {<<<<"A">>, AdminPassword>>, <<<<"b">>, "p">>}}
    \cup {[Request("create", token) EXCEPT !.fileName = "f1", !.data = "d1"] :
             token \in Tokens}
    \cup {[Request("update", token) EXCEPT !.orderId = id, !.patch = [data |-> "d2"]] :
             token \in Tokens, id \in OrderIds(current.orders)}
    \cup {[Request("delete", token) EXCEPT !.orderId = id] :
             token \in Tokens, id \in OrderIds(current.orders)}
    \cup {[Request("sync", token) EXCEPT !.payload = p] :
             token \in Tokens,
             p \in {<<>>} \cup {<<c>> : c \in {n \in NewClientOrders : n.fileName = "f1"}}}

\* the handlers that call generate_token()
HandsOutToken == {"register", "login"}

\* the request keeps the lists of the snapshot within the bounds
WithinBounds(req) ==
    /\ req.op \in HandsOutToken => nextToken <= MaxTokens
    /\ req.op \in {"create", "sync"} => Len(current.orders) < MaxOrders
    /\ req.op \in {"create", "update"} =>
           \A o \in Range(current.orders) : o.syncVersion < MaxVersion

\* what the body of a handler does to the snapshot db it loaded, whose
\* objects hold `val`: the values of the lists afterwards, the lists it
\* assigns anew to db (the others it changes in place), whether it calls
\* save_db(db), and the response it returns after that call.  For register
\* it is the part after the test of the email, lines 188-209.
mutate(req, tok, val) ==
    LET same == [users |-> val.users, orders |-> val.orders,
                 sessions |-> val.sessions, rebind |-> {}, save |-> FALSE,
                 status |-> 200, req |-> req]
        email == normalize_email(req.email)
        new_user == [id |-> SeedAdminId + Len(val.users), email |-> email,
                     password |-> hash_password(req.password),
                     isAdmin |-> email = AdminEmail]
        i == FirstIndex([n \in 1..Len(val.users) |->
                 val.users[n].email = email
                 /\ val.users[n].password = hash_password(req.password)])
    IN  CASE req.op = "register" ->
                 [same EXCEPT
                     !.users = Append(@, new_user),
                     !.sessions = Append(@, [token |-> tok,
                                             user_id |-> new_user.id,
                                             created |-> now]),
                     !.save = TRUE, !.status = 201,
                     !.req = [req EXCEPT !.user = new_user, !.newToken = tok]]
          [] req.op = "login" ->
                 IF i = 0
                 THEN [same EXCEPT !.status = 401]
                 ELSE [same EXCEPT
                          !.sessions = Append(@, [token |-> tok,
                                                  user_id |-> val.users[i].id,
                                                  created |-> now]),
                          !.save = TRUE, !.status = 200,
                          !.req = [req EXCEPT !.user = val.users[i], !.newToken = tok]]
          [] req.op = "create" ->
                 LET r == create_order(req.user, req.fileName, req.data, val.orders)
                 IN  [same EXCEPT
                          !.orders = r.orders, !.save = TRUE,
                          !.status = IF r.updated THEN 200 ELSE 201,
                          !.req = [req EXCEPT !.order = <<r.order>>,
                                              !.updated = r.updated]]
          [] req.op = "update" ->
                 LET r == update_order(req.user, req.orderId, req.patch, val.orders)
                 IN  [same EXCEPT
                          !.orders = r.orders, !.save = (r.status = 200),
                          !.status = r.status,
                          !.req = [req EXCEPT !.order = r.order]]
          [] req.op = "delete" ->
                 LET r == delete_order(req.user, req.orderId, val.orders)
                 IN  [same EXCEPT
                          !.orders = r.orders, !.save = (r.status = 200),
                          !.status = r.status]
          [] req.op = "sync" ->
                 LET r == sync_data(req.user, req.payload, val.orders)
                 IN  [same EXCEPT
                          !.orders = r.orders, !.rebind = {"orders"},
                          !.save = TRUE, !.status = 200,
                          !.req = [req EXCEPT !.list = r.merged]]
          [] req.op = "logout" ->
                 [same EXCEPT
                     !.sessions = logout_sessions(req.token, val.sessions),
                     !.rebind = {"sessions"}, !.save = TRUE, !.status = 200]
          [] OTHER -> same

\* verify_token returned: 401 without a user; check_auth answers, the other
\* handlers load
after_verify(fr) ==
    IF fr.req.user = NoUser THEN done(fr, 401)
    ELSE IF fr.req.op = "check" THEN done(fr, 200)
    ELSE enter_load([fr EXCEPT !.stack = <<"mutate">>])

\* a request arrives; also init_db() as the start of the process calls it
Begin(t, ops) ==
    /\ th[t].pc = "idle"
    /\ \E req \in {r \in StoreRequests : r.op \in ops} :
        LET fr == [th[t] EXCEPT
                      !.req = req,
                      !.tok = IF req.op \in HandsOutToken THEN nextToken ELSE NoId,
                      !.began = [file |-> db_file, cache |-> cache_value,
                                 fresh |-> cache_fresh]]
        IN  /\ WithinBounds(req)
            /\ nextToken' = IF req.op \in HandsOutToken THEN nextToken + 1
                            ELSE nextToken
            /\ th' = [th EXCEPT ![t] = keep(
                   CASE req.op = "init" ->
                            [fr EXCEPT !.pc = "init", !.stack = <<"reply">>]
                     [] req.op = "get_setting" ->
                            enter_load([fr EXCEPT !.stack = <<"reply">>])
                     [] req.op \in HandsOutToken ->
                            IF normalize_email(req.email) = <<>> \/ req.password = ""
                            THEN done(fr, 400)
                            ELSE enter_load([fr EXCEPT !.stack =
                                     <<IF req.op = "register" THEN "check"
                                       ELSE "mutate">>])
                     [] req.op = "logout" ->
                            IF req.token = NoId THEN done(fr, 200)
                            ELSE enter_load([fr EXCEPT !.stack = <<"mutate">>])
                     [] OTHER ->
                            IF req.token = NoId THEN done(fr, 401)
                            ELSE enter_load([fr EXCEPT !.stack = <<"verify">>]))]
    /\ UNCHANGED <<db_file, db_cache, db_last_modified, db_lock, heap>>
    /\ UNCHANGED <<users, sessions, orders, now, last>>

\* u['lastActivity'] = datetime.now().isoformat(): the user dict gains or
\* changes the key
stamped(u, t) ==
    [f \in DOMAIN u \cup {"lastActivity"} |->
        IF f = "lastActivity" THEN t ELSE u[f]]

\* verify_token, lines 155-160: the first user with the id of the session is
\* stamped, in the users list of db
stamp_activity(us, user, t) ==
    LET i == FirstIndex([n \in 1..Len(us) |-> us[n].id = user.id])
    IN  IF user = NoUser \/ i = 0 THEN us ELSE [us EXCEPT ![i] = stamped(us[i], t)]

\* verify_token, lines 142-168, on the snapshot its load_db() returned: the
\* user of the token is stamped in place; the pruned session list is a new
\* list, saved when a session was dropped
Verify(t) ==
    /\ th[t].pc = "verify"
    /\ LET val == deref(heap, th[t].db)
           v == verify_token(th[t].req.token, val.users, val.sessions, now)
           user == IF v.user = NoUser THEN NoUser ELSE stamped(v.user, now)
           fr == [th[t] EXCEPT !.req.user = user, !.ev = "none"]
           k == alloc("sessions", {db_cache} \cup held(th, {t}))
           snap == [th[t].db EXCEPT !.sessions = k]
           h1 == [heap EXCEPT !["users"][th[t].db.users] =
                                  stamp_activity(val.users, v.user, now)]
           h2 == [h1 EXCEPT !["sessions"][k] = v.sessions]
       IN  IF Len(v.sessions) # Len(val.sessions)
           THEN /\ th' = [th EXCEPT ![t] = keep(
                             call_save([fr EXCEPT !.db = snap], snap, "verified"))]
                /\ heap' = collect(h2, db_cache, th')
           ELSE /\ th' = [th EXCEPT ![t] = keep(after_verify(fr))]
                /\ heap' = collect(h1, db_cache, th')
    /\ UNCHANGED <<db_file, db_cache, db_last_modified, db_lock>>
    /\ UNCHANGED <<users, sessions, orders, now, nextToken, last>>

\* verify_token returns after its save_db(db), whose value it does not read
VerifyReturn(t) ==
    /\ th[t].pc = "verified"
    /\ th' = [th EXCEPT ![t] = keep(
                 after_verify([th[t] EXCEPT !.ev = "none", !.ok = TRUE]))]
    /\ heap' = collect(heap, db_cache, th')
    /\ UNCHANGED <<db_file, db_cache, db_last_modified, db_lock>>
    /\ UNCHANGED <<users, sessions, orders, now, nextToken, last>>

\* register, lines 184-186: a user of the snapshot has the email
email_taken(email, us) == \E n \in 1..Len(us) : us[n].email = email

\* register, lines 182-186: the test of the email on the snapshot it loaded;
\* another thread may run between the test and the append that follows it
Check(t) ==
    /\ th[t].pc = "check"
    /\ th' = [th EXCEPT ![t] = keep(
                 IF email_taken(normalize_email(th[t].req.email),
                                deref(heap, th[t].db).users)
                 THEN done(th[t], 400)
                 ELSE [th[t] EXCEPT !.pc = "mutate", !.ev = "none"])]
    /\ heap' = collect(heap, db_cache, th')
    /\ UNCHANGED <<db_file, db_cache, db_last_modified, db_lock>>
    /\ UNCHANGED <<users, sessions, orders, now, nextToken, last>>

\* a handler that changes every list in place
assigned_none(m) == {}

\* the lists the handler assigns to db (db['sessions'] = ..., line 313,
\* db['orders'] = ..., line 800): db then refers to a new list and the list
\* it got from load_db() is as it was
assigned_lists(m) == m.rebind

\* the body of the handler from its load_db() to its save_db(db), or to
\* the response it returns without saving
Mutate(t) ==
    /\ th[t].pc = "mutate"
    /\ LET val == deref(heap, th[t].db)
           m == mutate(th[t].req, th[t].tok, val)
           snap == [f \in Fields |->
                       IF f \in assigned_lists(m)
                       THEN alloc(f, {db_cache} \cup held(th, {t}))
                       ELSE th[t].db[f]]
           h2 == store_value(heap, snap,
                     [users |-> m.users, orders |-> m.orders,
                      sessions |-> m.sessions, settings |-> val.settings])
           fr == [th[t] EXCEPT !.req = [m.req EXCEPT !.status = m.status],
                               !.db = snap, !.ev = "none"]
       IN  IF m.save
           THEN /\ th' = [th EXCEPT ![t] = keep([fr EXCEPT !.pc = "mutated"])]
                /\ heap' = collect(h2, db_cache, th')
           ELSE /\ th' = [th EXCEPT ![t] = keep(done(fr, m.status))]
                /\ heap' = collect(heap, db_cache, th')
    /\ UNCHANGED <<db_file, db_cache, db_last_modified, db_lock>>
    /\ UNCHANGED <<users, sessions, orders, now, nextToken, last>>

\* the handler calls save_db(db)
Save(t) ==
    /\ th[t].pc = "mutated"
    /\ th' = [th EXCEPT ![t] = keep(call_save(th[t], th[t].db, "reply"))]
    /\ UNCHANGED <<db_file, db_cache, db_last_modified, db_lock, heap>>
    /\ UNCHANGED <<users, sessions, orders, now, nextToken, last>>

\* the status of the response of a handler that ran to its end: the value
\* save_db returned is not read
reply_status(fr) == IF fr.req.status = 0 THEN 200 ELSE fr.req.status

\* the handler returns its response
Reply(t) ==
    /\ th[t].pc = "reply"
    /\ th' = [th EXCEPT ![t] = keep(done(th[t], reply_status(th[t])))]
    /\ heap' = collect(heap, db_cache, th')
    /\ UNCHANGED <<db_file, db_cache, db_last_modified, db_lock>>
    /\ UNCHANGED <<users, sessions, orders, now, nextToken, last>>

\* the response has been delivered
Finish(t) ==
    /\ th[t].pc = "done"
    /\ th' = [th EXCEPT ![t] = [Local0 EXCEPT !.fresh_save = th[t].fresh_save,
                                             !.watch = th[t].watch]]
    /\ UNCHANGED <<db_file, db_cache, db_last_modified, db_lock, heap>>
    /\ UNCHANGED <<users, sessions, orders, now, nextToken, last>>

\* no thread runs a request
AtRest == \A t \in Threads : th[t].pc = "idle"

\* another process changes the file, later than any write so far
Disturb(file) ==
    /\ AtRest
    /\ now < MaxTouches
    /\ now' = now + 1
    /\ db_file' = file
    /\ th' = [t \in Threads |-> [Local0 EXCEPT !.watch = th[t].watch]]
    /\ UNCHANGED <<db_cache, db_last_modified, db_lock, heap>>
    /\ UNCHANGED <<users, sessions, orders, nextToken, last>>

\* the file is removed
RemoveFile == db_file.exists /\ Disturb(missing_file)

\* the file is overwritten with text that does not parse
CorruptFile == db_file.exists /\ db_file.valid /\ Disturb(corrupt_file(now + 1))

-----------------------------------------------------------------------------
(* Specifications *)

\* the requests of the order repository and the sync engine, by users who
\* registered or logged in
Next ==
    \/ Join
    \/ SignIn
    \/ GetOrders
    \/ CreateOrder
    \/ UpdateOrder
    \/ DeleteOrder
    \/ SyncData
    \/ Respond

Spec == Init /\ [][Next]_vars

\* the requests of the session manager, with the passing of time
NextAuth ==
    \/ Tick
    \/ Register
    \/ Login
    \/ Logout
    \/ CheckAuth
    \/ Respond

SpecAuth == Init /\ [][NextAuth]_vars

\* two POST /api/orders requests in a row by the same user with the same
\* fileName, no other request in between; last.list holds the order the
\* first call returned, last.order and last.updated the answer of the second
Reupload ==
    /\ Idle
    /\ \E token \in Tokens :
        LET v1 == verify_token(token, users, sessions, now)
            v2 == verify_token(token, users, v1.sessions, now)
        IN  /\ v1.user # NoUser
            /\ v2.user # NoUser
            /\ \E fileName \in FileNames, first \in Datas, second \in Datas :
                   LET r1 == create_order(v1.user, fileName, first, orders)
                       r2 == create_order(v2.user, fileName, second, r1.orders)
                   IN  /\ first # second
                       /\ Len(r2.orders) <= MaxOrders
                       /\ r1.order.syncVersion <= MaxVersion
                       /\ orders' = r2.orders
                       /\ sessions' = v2.sessions
                       /\ last' = [Request("reupload", token) EXCEPT
                                      !.user = v2.user, !.fileName = fileName,
                                      !.data = second,
                                      !.status = IF r2.updated THEN 200 ELSE 201,
                                      !.list = <<r1.order>>,
                                      !.order = <<r2.order>>,
                                      !.updated = r2.updated]
    /\ UNCHANGED <<users, now, nextToken>>
    /\ UNCHANGED storeVars

\* the requests that add orders, and re-uploads as one step
NextReupload ==
    \/ Join
    \/ SignIn
    \/ CreateOrder
    \/ SyncData
    \/ Reupload
    \/ Respond

SpecReupload == Init /\ [][NextReupload]_vars

\* the client of the last sync adopts the merged orders the response lists
\* and sends them back as the payload of its next sync
Resync ==
    /\ last.op = "sync"
    /\ last.status = 200
    /\ LET v == verify_token(last.token, users, sessions, now)
           r == sync_data(v.user, last.list, orders)
       IN  /\ v.user # NoUser
           /\ Len(r.orders) <= MaxOrders + 1
           /\ sessions' = v.sessions
           /\ orders' = r.orders
           /\ last' = [Request("resync", last.token) EXCEPT
                          !.user = v.user, !.payload = last.list,
                          !.status = 200, !.list = r.merged]
    /\ UNCHANGED <<users, now, nextToken>>
    /\ UNCHANGED storeVars

\* syncs, each followed at once by a sync of what it returned or by another
\* request
NextResync ==
    \/ Join
    \/ SignIn
    \/ CreateOrder
    \/ SyncData
    \/ Resync
    \/ Respond

SpecResync == Init /\ [][NextResync]_vars

\* a snapshot of an earlier run: the session of the administrator is 30
\* days old when the process starts
old_db ==
    [default_db EXCEPT !.sessions = <<[token |-> 1, user_id |-> SeedAdminId,
                                       created |-> 0 - SessionDays]>>]

\* lines 51-55: no cache, the lock free; init_db() has not run.  The file
\* the process finds is one of `files`; what the threads of `watched` do is
\* recorded.
StartWith(files, watched) ==
    /\ \E file \in files :
        /\ StoreAtRest(file, watched)
        /\ nextToken = Len(file.content.sessions) + 1
    /\ users = default_db.users
    /\ sessions = default_db.sessions
    /\ orders = default_db.orders
    /\ now = 0
    /\ last = Blank

\* one thread: the requests run one at a time, each step by step
Main == {1}

\* the process starts without a file, on a file that does not parse or on
\* the seeded file; requests that load, that initialise and that save run
\* one at a time, and another process may remove or overwrite the file
InitStore ==
    StartWith({missing_file, corrupt_file(0), written_file(default_db, 0)}, Main)

StoreRequestKinds == {"init", "get_setting", "register"}

NextStore ==
    \/ \E t \in Main : Begin(t, StoreRequestKinds)
    \/ \E t \in Main : LoadCheck(t)
    \/ \E t \in Main : LoadLock(t)
    \/ \E t \in Main : LoadRead(t)
    \/ \E t \in Main : InitDb(t)
    \/ \E t \in Main : InitCache(t)
    \/ \E t \in Main : SaveLock(t)
    \/ \E t \in Main : SaveWrite(t, WriteOutcomes)
    \/ \E t \in Main : Check(t)
    \/ \E t \in Main : Mutate(t)
    \/ \E t \in Main : Save(t)
    \/ \E t \in Main : Reply(t)
    \/ \E t \in Main : Finish(t)
    \/ RemoveFile
    \/ CorruptFile

SpecStore == InitStore /\ [][NextStore]_vars

\* the process starts on the seeded file or on the file of an earlier run;
\* the handlers that change the snapshot run one at a time
InitHandlers ==
    StartWith({written_file(default_db, 0), written_file(old_db, 0)}, Main)

MutatingRequestKinds == {"register", "login", "create", "update", "delete", "sync"}

NextHandlers ==
    \/ \E t \in Main : Begin(t, MutatingRequestKinds)
    \/ \E t \in Main : LoadCheck(t)
    \/ \E t \in Main : LoadLock(t)
    \/ \E t \in Main : LoadRead(t)
    \/ \E t \in Main : SaveLock(t)
    \/ \E t \in Main : SaveWrite(t, WriteOutcomes)
    \/ \E t \in Main : Verify(t)
    \/ \E t \in Main : VerifyReturn(t)
    \/ \E t \in Main : Check(t)
    \/ \E t \in Main : Mutate(t)
    \/ \E t \in Main : Save(t)
    \/ \E t \in Main : Reply(t)
    \/ \E t \in Main : Finish(t)

SpecHandlers == InitHandlers /\ [][NextHandlers]_vars

\* a file that is writable: every physical write succeeds
Writable == {"written"}

\* the process starts on the seeded file or on the file of an earlier run;
\* logins, checks of a token and logouts run one at a time, and every write
\* succeeds
InitSessions ==
    StartWith({written_file(default_db, 0), written_file(old_db, 0)}, Main)

SessionRequestKinds == {"login", "check", "logout"}

NextSessions ==
    \/ \E t \in Main : Begin(t, SessionRequestKinds)
    \/ \E t \in Main : LoadCheck(t)
    \/ \E t \in Main : LoadLock(t)
    \/ \E t \in Main : LoadRead(t)
    \/ \E t \in Main : SaveLock(t)
    \/ \E t \in Main : SaveWrite(t, Writable)
    \/ \E t \in Main : Verify(t)
    \/ \E t \in Main : VerifyReturn(t)
    \/ \E t \in Main : Mutate(t)
    \/ \E t \in Main : Save(t)
    \/ \E t \in Main : Reply(t)
    \/ \E t \in Main : Finish(t)

SpecSessions == InitSessions /\ [][NextSessions]_vars

\* a snapshot of an earlier run in which the administrator is signed in
live_db ==
    [default_db EXCEPT !.sessions = <<[token |-> 1, user_id |-> SeedAdminId,
                                       created |-> 0]>>]

\* the process starts on the seeded file or on the file of an earlier run;
\* two requests arrive, each a registration, a login or a logout, and two
\* threads run them in any interleaving of their steps; every write succeeds
InitRace ==
    StartWith({written_file(default_db, 0), written_file(live_db, 0)}, Threads)

RaceRequestKinds == {"register", "login", "logout"}

NextRace ==
    \/ \E t \in Threads : Begin(t, RaceRequestKinds)
    \/ \E t \in Threads : LoadCheck(t)
    \/ \E t \in Threads : LoadLock(t)
    \/ \E t \in Threads : LoadRead(t)
    \/ \E t \in Threads : SaveLock(t)
    \/ \E t \in Threads : SaveWrite(t, Writable)
    \/ \E t \in Threads : Check(t)
    \/ \E t \in Threads : Mutate(t)
    \/ \E t \in Threads : Save(t)
    \/ \E t \in Threads : Reply(t)

SpecRace == InitRace /\ [][NextRace]_vars

\* the steps of thread t after its request arrived, on a file that is
\* readable and writable
Run(t) ==
    \/ LoadCheck(t)
    \/ LoadLock(t)
    \/ LoadRead(t)
    \/ InitDb(t)
    \/ InitCache(t)
    \/ SaveLock(t)
    \/ SaveWrite(t, Writable)
    \/ Verify(t)
    \/ VerifyReturn(t)
    \/ Check(t)
    \/ Mutate(t)
    \/ Save(t)
    \/ Reply(t)

\* the process starts without a file or on the file of an earlier run; two
\* requests arrive, each a registration or a check of a token, and two
\* threads run them
InitLive ==
    StartWith({missing_file, written_file(old_db, 0)}, {})

LiveRequestKinds == {"register", "check"}

NextLive ==
    \/ \E t \in Threads : Begin(t, LiveRequestKinds)
    \/ \E t \in Threads : Run(t)

\* the scheduler lets every thread that can take a step take one
SpecLive ==
    InitLive /\ [][NextLive]_vars /\ \A t \in Threads : WF_vars(Run(t))

\* two threads: requests that load, that initialise and that save, in any
\* interleaving of their steps
\* the process starts without a file, on a file that does not parse or on
\* the seeded file
InitLock ==
    StartWith({missing_file, corrupt_file(0), written_file(default_db, 0)}, {})

LockRequestKinds == {"init", "get_setting", "register"}

NextLock ==
    \/ \E t \in Threads : Begin(t, LockRequestKinds)
    \/ \E t \in Threads : LoadCheck(t)
    \/ \E t \in Threads : LoadLock(t)
    \/ \E t \in Threads : LoadRead(t)
    \/ \E t \in Threads : InitDb(t)
    \/ \E t \in Threads : InitCache(t)
    \/ \E t \in Threads : SaveLock(t)
    \/ \E t \in Threads : SaveWrite(t, WriteOutcomes)
    \/ \E t \in Threads : Check(t)
    \/ \E t \in Threads : Mutate(t)
    \/ \E t \in Threads : Save(t)
    \/ \E t \in Threads : Reply(t)
    \/ \E t \in Threads : Finish(t)

SpecLock == InitLock /\ [][NextLock]_vars

-----------------------------------------------------------------------------
(* Vocabulary of the properties: they read the record of the last request *)

Synced == last.op = "sync" /\ last.status = 200

\* the indices of the client orders of the last sync payload
PayloadIdx == 1..Len(last.payload)

\* how often the order o occurs in the sequence s
Occurrences(s, o) == Cardinality({i \in 1..Len(s) : s[i] = o})

\* the orders of s the user with id uid owns
OwnedIn(s, uid) == {o \in Range(s) : o.userId = uid}

\* the server orders within the scope of the caller of the last sync:
\* those the caller owns, and for an administrator all of them
InScope(o) == last.user.isAdmin \/ o.userId = last.user.id

\* the server copy the merge holds for an id: the last order in scope with it
ServerCopies(id) ==
    {last.preOrders[i] : i \in
        {i \in 1..Len(last.preOrders) :
            /\ last.preOrders[i].id = id
            /\ InScope(last.preOrders[i])
            /\ \A j \in (i + 1)..Len(last.preOrders) :
                   ~(last.preOrders[j].id = id /\ InScope(last.preOrders[j]))}}

\* the entries of the merged set returned for an id
MergedFor(id) == {o \in Range(last.list) : o.id = id}

\* the client order at index k is the only one of the payload with its id
OnlyOneWithId(k) == \A j \in PayloadIdx : last.payload[j].id = last.payload[k].id => j = k

-----------------------------------------------------------------------------
(* C1 *)

\* C1 as stated: for every client order whose id is the id of one of the
\* caller's server orders, the merged result for that id is the client copy
\* iff the client's syncVersion is strictly greater than the server's, and
\* otherwise the server copy, unchanged.
C1_ClientCopyIffGreater ==
    Synced =>
        \A k \in PayloadIdx :
            LET c == last.payload[k]
            IN  \A srv \in {o \in OwnedIn(last.preOrders, last.user.id) : o.id = c.id} :
                    c.id # NoId =>
                        IF c.syncVersion > srv.syncVersion
                        THEN MergedFor(c.id) = {c}
                        ELSE MergedFor(c.id) = {srv}

\* C1 amended: the same for every client order that is the only one of the
\* payload with its id; the server copy is the last order in the caller's
\* scope that carries the id.
C1_MergeByVersion ==
    Synced =>
        \A k \in PayloadIdx :
            LET c == last.payload[k]
            IN  (c.id # NoId /\ OnlyOneWithId(k)
                    /\ \E o \in OwnedIn(last.preOrders, last.user.id) : o.id = c.id) =>
                    \A srv \in ServerCopies(c.id) :
                        IF c.syncVersion > srv.syncVersion
                        THEN MergedFor(c.id) = {c}
                        ELSE MergedFor(c.id) = {srv}

\* a sync in which a client copy with a greater version replaced the caller's
\* server copy, in the merged set and in the collection
C1_Witness ==
    /\ Synced
    /\ \E k \in PayloadIdx :
           LET c == last.payload[k]
           IN  /\ OnlyOneWithId(k)
               /\ \E srv \in OwnedIn(last.preOrders, last.user.id) :
                      /\ srv.id = c.id
                      /\ c.syncVersion > srv.syncVersion
                      /\ c # srv
                      /\ MergedFor(c.id) = {c}
                      /\ c \in Range(orders)

-----------------------------------------------------------------------------
(* C2 *)

-----------------------------------------------------------------------------
(* C3 *)

\* C3: for every caller, administrators included, the merge map is seeded
\* only from the caller's own orders, and after the sync every order of
\* another user is in the collection exactly as often as before, unchanged.
C3_SyncScopedToCaller ==
    Synced =>
        /\ \A o \in Range(last.list) :
               o \in Range(last.preOrders) => o.userId = last.user.id
        /\ \A o \in Range(last.preOrders) :
               o.userId # last.user.id =>
                   Occurrences(orders, o) = Occurrences(last.preOrders, o)

-----------------------------------------------------------------------------
(* C4 *)

\* the entries of the merged set whose id neither the collection nor the
\* payload carried: the orders the sync created
CreatedBySync ==
    {i \in 1..Len(last.list) :
        last.list[i].id \notin OrderIds(last.preOrders) \cup OrderIds(last.payload)}

\* C4: every client order submitted without an id appears in the merged set
\* and in the collection with an id no order had before, the caller's userId
\* and userEmail, and syncVersion 1.
C4_NewOrdersGetFreshId ==
    Synced =>
        /\ Cardinality(CreatedBySync) =
               Cardinality({k \in PayloadIdx : last.payload[k].id = NoId})
        /\ \A i \in CreatedBySync :
               LET o == last.list[i]
               IN  /\ o.id # NoId
                   /\ o.userId = last.user.id
                   /\ o.userEmail = last.user.email
                   /\ o.syncVersion = 1
                   /\ Occurrences(orders, o) = 1
                   /\ \A j \in 1..Len(orders) : orders[j].id = o.id => orders[j] = o
        /\ \A k \in PayloadIdx :
               last.payload[k].id = NoId =>
                   \E i \in CreatedBySync :
                       /\ last.list[i].fileName = last.payload[k].fileName
                       /\ last.list[i].data = last.payload[k].data

\* a sync that created an order next to an order the collection already held
C4_Witness ==
    /\ Synced
    /\ last.preOrders # <<>>
    /\ \E k \in PayloadIdx : last.payload[k].id = NoId
    /\ \E i \in CreatedBySync :
           /\ last.list[i].syncVersion = 1
           /\ last.list[i] \in Range(orders)

-----------------------------------------------------------------------------
(* C5 *)

\* how many orders of s the user with id uid owns under the file name f
OwnedWithName(s, uid, f) ==
    Cardinality({i \in 1..Len(s) : s[i].userId = uid /\ s[i].fileName = f})

\* C5: the sync engine applies the upsert rule of create to an order without
\* id: when the caller already owns an order of that fileName, that order
\* gets the client's data and a syncVersion one higher, and the caller owns
\* no more orders of that fileName than before.
C5_SyncUpsertsByFileName ==
    Synced =>
        \A k \in PayloadIdx :
            LET c == last.payload[k]
                had == {o \in OwnedIn(last.preOrders, last.user.id) :
                            o.fileName = c.fileName}
            IN  (c.id = NoId /\ had # {}) =>
                    /\ OwnedWithName(orders, last.user.id, c.fileName) =
                           OwnedWithName(last.preOrders, last.user.id, c.fileName)
                    /\ \E o \in had :
                           [o EXCEPT !.data = c.data, !.syncVersion = @ + 1]
                               \in Range(orders)

-----------------------------------------------------------------------------
(* C6 *)

\* the stored order an update or a re-upload returned, and the same order
\* before the request
Returned == last.order[1]

TargetBefore ==
    IF last.op = "update"
    THEN last.preOrders[FirstIndex([n \in 1..Len(last.preOrders) |-> last.preOrders[n].id = last.orderId])]
    ELSE last.preOrders[FirstIndex([n \in 1..Len(last.preOrders) |-> last.preOrders[n].fileName = last.fileName /\ last.preOrders[n].userId = last.user.id])]

\* C6: every request that mutates an order leaves its syncVersion strictly
\* greater than before: a re-upload through create, an update with any
\* patch, and a sync in which the client copy replaces the server copy.
C6_SyncVersionStrictlyIncreases ==
    /\ (last.op = "create" /\ last.updated) =>
           Returned.syncVersion > TargetBefore.syncVersion
    /\ (last.op = "update" /\ last.status = 200) =>
           Returned.syncVersion > TargetBefore.syncVersion
    /\ Synced =>
           \A o \in Range(last.preOrders) :
               \A m \in MergedFor(o.id) :
                   (InScope(o) /\ o \in ServerCopies(o.id) /\ m # o) =>
                       m.syncVersion > o.syncVersion

-----------------------------------------------------------------------------
(* C7 *)

\* C7: list(user) returns, for a user who is no administrator, exactly the
\* orders whose userId is the user's id, and for an administrator every
\* order of the collection.
C7_ListIsolation ==
    (last.op = "list" /\ last.status = 200) =>
        /\ orders = last.preOrders
        /\ last.user.isAdmin => last.list = orders
        /\ ~last.user.isAdmin =>
               /\ \A o \in Range(last.list) : o.userId = last.user.id
               /\ \A o \in Range(orders) :
                      Occurrences(last.list, o) =
                          IF o.userId = last.user.id THEN Occurrences(orders, o) ELSE 0

\* a user who is no administrator lists their orders while the collection
\* also holds an order of somebody else
C7_Witness ==
    /\ last.op = "list"
    /\ last.status = 200
    /\ ~last.user.isAdmin
    /\ last.list # <<>>
    /\ Len(last.list) < Len(orders)

-----------------------------------------------------------------------------
(* C8 *)

\* the orders of the collection, before the last request, with the id it named
Targets == {o \in Range(last.preOrders) : o.id = last.orderId}

\* C8: update and delete fail with NotFound for an id no order has and with
\* Forbidden for a caller who is neither administrator nor owner, by the same
\* check, and then leave the collection unchanged; a successful delete
\* removes the targeted order and leaves every other order unchanged.
C8_UpdateDeleteChecks ==
    (last.op \in {"update", "delete"} /\ last.user # NoUser) =>
        /\ Targets = {} => last.status = 404
        /\ (Targets # {} /\ ~last.user.isAdmin
                /\ \A o \in Targets : o.userId # last.user.id) => last.status = 403
        /\ last.status = 404 => Targets = {}
        /\ last.status = 403 =>
               /\ ~last.user.isAdmin
               /\ \E o \in Targets : o.userId # last.user.id
        /\ last.status \in {403, 404} => orders = last.preOrders
        /\ last.status \in {200, 403, 404}
        /\ last.op = "update" =>
               last.status = delete_order(last.user, last.orderId, last.preOrders).status
        /\ (last.op = "delete" /\ last.status = 200) =>
               \E i \in 1..Len(last.preOrders) :
                   /\ last.preOrders[i].id = last.orderId
                   /\ last.user.isAdmin \/ last.preOrders[i].userId = last.user.id
                   /\ Len(orders) = Len(last.preOrders) - 1
                   /\ \A j \in 1..Len(orders) :
                          orders[j] = last.preOrders[IF j < i THEN j ELSE j + 1]

\* a delete refused with Forbidden: the caller is no administrator and the
\* order belongs to somebody else
C8_Witness ==
    /\ last.op = "delete"
    /\ last.status = 403
    /\ Targets # {}
    /\ orders = last.preOrders

-----------------------------------------------------------------------------
(* C9 *)

\* C9: after the same user called create twice in a row with the same
\* fileName, the collection holds exactly one order of that user with that
\* fileName, its syncVersion is one more than after the first call, its data
\* is the payload of the second call, and the second call reports an update.
C9_ReuploadLeavesOneOrder ==
    last.op = "reupload" =>
        /\ last.updated
        /\ Returned \in Range(orders)
        /\ Returned.data = last.data
        /\ Returned.syncVersion = last.list[1].syncVersion + 1
        /\ OwnedWithName(orders, last.user.id, last.fileName) = 1

-----------------------------------------------------------------------------
(* C10 *)

\* the age of a session at the time of the last request, in days
Age(s) == now - s.created

\* the last request ran verify_token with a token that is not empty
Verified == last.op = "check" /\ last.token # NoId

\* C10: a session of 30 days or more never makes verify return a user; and
\* after a verify call with a non-empty token the session list holds none of
\* the sessions that were 30 days old or older and every younger one.
C10_SessionExpiry ==
    /\ (last.op = "check" /\ last.user # NoUser) =>
           /\ \E s \in Range(last.preSessions) :
                  /\ s.token = last.token
                  /\ s.user_id = last.user.id
                  /\ Age(s) < SessionDays
           /\ \A s \in Range(last.preSessions) :
                  Age(s) >= SessionDays => s.token # last.token
    /\ Verified =>
           /\ \A s \in Range(last.preSessions) :
                  IF Age(s) >= SessionDays
                  THEN s \notin Range(sessions)
                  ELSE Occurrences(sessions, s) = Occurrences(last.preSessions, s)
           /\ Range(sessions) \subseteq Range(last.preSessions)

\* a verify call that met a session of 30 days next to a younger one: the
\* old one is gone, the young one is still there, and the token of the old
\* one validated nobody
C10_Witness ==
    /\ Verified
    /\ last.user = NoUser
    /\ \E s \in Range(last.preSessions) :
           /\ Age(s) = SessionDays
           /\ s.token = last.token
           /\ s \notin Range(sessions)
    /\ \E s \in Range(last.preSessions) :
           /\ Age(s) < SessionDays
           /\ s \in Range(sessions)

-----------------------------------------------------------------------------
(* C11 *)

\* the sessions of the list before the last request that carry its token, are
\* younger than 30 days and name a user of the user list
LiveSessions ==
    {s \in Range(last.preSessions) :
        /\ s.token = last.token
        /\ Age(s) < SessionDays
        /\ \E u \in Range(last.preUsers) : u.id = s.user_id}

\* C11: verify(token) returns a user exactly when the session list holds an
\* unexpired session with that token whose user exists, and the user it
\* returns is the one such a session names; it returns none for the empty
\* token, for a token no session carries and for a token whose only session
\* has expired.
C11_VerifyReturnsBoundUser ==
    last.op = "check" =>
        /\ (last.user # NoUser) <=> (last.token # NoId /\ LiveSessions # {})
        /\ last.user # NoUser =>
               /\ last.user \in Range(last.preUsers)
               /\ \E s \in LiveSessions : s.user_id = last.user.id
        /\ last.token = NoId => last.user = NoUser
        /\ (\A s \in Range(last.preSessions) : s.token # last.token) =>
               last.user = NoUser
        /\ (\A s \in Range(last.preSessions) :
                s.token = last.token => Age(s) >= SessionDays) =>
               last.user = NoUser

\* a verify call that returned the second user although the session of the
\* administrator, with another token, was in the list too
C11_Witness ==
    /\ last.op = "check"
    /\ last.user # NoUser
    /\ ~last.user.isAdmin
    /\ \E s \in Range(last.preSessions) :
           /\ s.token # last.token
           /\ s.user_id = SeedAdminId
           /\ Age(s) < SessionDays

-----------------------------------------------------------------------------
(* C12 *)

\* what one revoke(token) call does to the snapshot
C12_RevokeFrame ==
    last.op = "logout" =>
        /\ \A s \in Range(last.preSessions) :
               IF s.token = last.token
               THEN s \notin Range(sessions)
               ELSE Occurrences(sessions, s) = Occurrences(last.preSessions, s)
        /\ Range(sessions) \subseteq Range(last.preSessions)
        /\ Len(sessions) =
               Cardinality({i \in 1..Len(last.preSessions) :
                               last.preSessions[i].token # last.token})
        /\ users = last.preUsers
        /\ orders = last.preOrders
        /\ (\A s \in Range(last.preSessions) : s.token # last.token) =>
               sessions = last.preSessions
        /\ last.status = 200

\* a token that was revoked validates nobody from then on
C12_RevokedStaysRevoked ==
    \A t \in 1..MaxTokens :
        [](last.op = "logout" /\ last.token = t =>
              [](last.op = "check" /\ last.token = t => last.user = NoUser))

\* C12: revoke(token) removes every session with that token and no other
\* session, in the order of the list, changes neither users nor orders and
\* leaves the session list as it is when no session has the token; and once
\* revoke(token) has run, every later verify(token) returns none.
C12_Revoke == []C12_RevokeFrame /\ C12_RevokedStaysRevoked

\* a revoke that removed the session of its token and kept the session of
\* another token
C12_Witness ==
    /\ last.op = "logout"
    /\ \E s \in Range(last.preSessions) : s.token = last.token
    /\ \E s \in Range(last.preSessions) : s.token # last.token /\ s \in Range(sessions)
    /\ Len(sessions) = Len(last.preSessions) - 1

-----------------------------------------------------------------------------
(* C13 *)

\* the email of the last request, trimmed and lower-cased
Trimmed == lower(strip(last.email))

\* C13: a register call whose email, trimmed and lower-cased, is the email of
\* a user (the seeded administrator included) fails and adds neither a user
\* nor a session, whatever the case of its letters.
C13_DuplicateEmailRejected ==
    (/\ last.op = "register"
     /\ \E u \in Range(last.preUsers) : u.email = Trimmed) =>
        /\ last.status = 400
        /\ last.newToken = NoId
        /\ users = last.preUsers
        /\ sessions = last.preSessions

\* a register call with a password that was refused because its email, in
\* another case, is the email of a user
C13_Witness ==
    /\ last.op = "register"
    /\ last.password # ""
    /\ last.status = 400
    /\ last.email \notin {u.email : u \in Range(last.preUsers)}
    /\ Trimmed \in {u.email : u \in Range(last.preUsers)}
    /\ users = last.preUsers

-----------------------------------------------------------------------------
(* C14 *)

\* thread t has just got a snapshot from load_db(), its first load since a
\* save_db of its own returned True, the file untouched by others since
LoadedAfterSave(t) == th[t].ev = "load_ret" /\ th[t].after_save # NoSnapshot

\* C14: after save(snapshot) returned true, the load() that follows it with
\* no other writer in between returns a value equal to snapshot in users,
\* orders, settings and sessions, on the cache hit path: it neither takes
\* the lock nor reads the file.
C14_CacheCoherence ==
    \A t \in Main :
        LoadedAfterSave(t) =>
            /\ th[t].path = "hit"
            /\ ~th[t].locked
            /\ th[t].loaded = th[t].after_save
            /\ deref(heap, th[t].db) = th[t].after_save
            /\ db_lock = NoThread

\* the load of a later request returned, from the cache, the snapshot with
\* the registered user that the request before it had saved
C14_Witness ==
    \E t \in Main :
        /\ LoadedAfterSave(t)
        /\ th[t].req.op = "get_setting"
        /\ Len(th[t].after_save.users) = 2
        /\ th[t].loaded = th[t].after_save
        /\ th[t].path = "hit"

-----------------------------------------------------------------------------
(* C15 *)

\* C15: the changes a caller made to the snapshot it got from load() are,
\* until it calls save(), neither in the cache nor in the snapshot another
\* load() would return: both are as they were when the caller loaded.
C15_LoadReturnsIsolatedCopy ==
    \A t \in Main :
        th[t].pc = "mutated" =>
            /\ cache_value = th[t].loaded
            /\ current = th[t].loaded

-----------------------------------------------------------------------------
(* C16 *)

\* thread t ran a request that only loads, from a process without a cached
\* snapshot, and every write it made succeeded
LoadedCold(t) ==
    /\ th[t].pc = "done"
    /\ th[t].req.op = "get_setting"
    /\ th[t].began.cache = NoSnapshot
    /\ th[t].ok

\* C16: without a cached snapshot, load() on a file that does not parse and
\* load() on a missing file both end with the seeded default snapshot (one
\* admin user, no orders, default settings) returned and in the file.
C16_RecoversFromUnreadableFile ==
    \A t \in Main :
        (LoadedCold(t) /\ ~(th[t].began.file.exists /\ th[t].began.file.valid)) =>
            /\ th[t].ev = "reply"
            /\ th[t].req.status = 200
            /\ th[t].loaded = default_db
            /\ db_file = written_file(default_db, db_file.mtime)

-----------------------------------------------------------------------------
(* C17 *)

\* save_db has just returned False to thread t
SaveFailed(t) == th[t].ev = "save_ret" /\ ~th[t].ok

\* C17: when the physical write fails, save(snapshot) returns false to the
\* code that called it (nothing is raised), the lock is free again, and the
\* cached snapshot and the cache timestamp are what they were before the
\* call.
C17_SaveFailureIsAValue ==
    \A t \in Main :
        SaveFailed(t) =>
            /\ th[t].pc \in {"reply", "init_cache"}
            /\ db_lock = NoThread
            /\ db_cache = th[t].pre.cache
            /\ cache_value = th[t].pre.value
            /\ db_last_modified = th[t].pre.stamp

\* a failed save of a snapshot with a new user: save_db returned False to
\* the handler while a snapshot was cached
C17_Witness ==
    \E t \in Main :
        /\ SaveFailed(t)
        /\ th[t].pc = "reply"
        /\ th[t].req.op = "register"
        /\ th[t].pre.cache # NoSnapshot
        /\ db_cache = th[t].pre.cache

-----------------------------------------------------------------------------
(* C18 *)

\* the statuses with which a handler reports success
Success == {200, 201}

\* C18: when save returned false inside create, update, delete, sync,
\* register or login, the response reports a failure: no success status, no
\* created or updated order, no session token.
C18_SaveFailureReported ==
    \A t \in Main :
        (/\ th[t].pc = "done"
         /\ th[t].req.op \in MutatingRequestKinds
         /\ ~th[t].ok) =>
            /\ th[t].req.status \notin Success
            /\ th[t].req.order = <<>>
            /\ th[t].req.newToken = NoId

-----------------------------------------------------------------------------
(* C19 *)

\* thread t ran init_db() to its end
Initialized(t) == th[t].pc = "done" /\ th[t].req.op = "init"

\* init_db() found a file that parses
FoundSnapshot(t) == th[t].began.file.exists /\ th[t].began.file.valid

\* C19: init_db() on a file that parses writes nothing, leaves the file as
\* it is and returns the snapshot load() returns (the cached snapshot when
\* the cache is fresh, else the content of the file), however often it is
\* called; it writes only when it found no file, and what it then writes is
\* the seeded default.
C19_InitializeIdempotent ==
    \A t \in Main :
        Initialized(t) =>
            /\ FoundSnapshot(t) =>
                   /\ th[t].writes = 0
                   /\ db_file = th[t].began.file
                   /\ th[t].ev = "reply"
                   /\ th[t].loaded = IF th[t].began.fresh THEN th[t].began.cache
                                     ELSE th[t].began.file.content
            /\ th[t].writes > 0 => ~th[t].began.file.exists
            /\ (th[t].writes > 0 /\ th[t].ok) =>
                   db_file = written_file(default_db, db_file.mtime)

\* init_db() ran on a file that holds a registered user and returned that
\* snapshot without a write
C19_Witness ==
    \E t \in Main :
        /\ Initialized(t)
        /\ FoundSnapshot(t)
        /\ Len(th[t].began.file.content.users) = 2
        /\ th[t].loaded = th[t].began.file.content
        /\ db_file = th[t].began.file

-----------------------------------------------------------------------------
(* C20 *)

\* thread t is at the read or at the write of the backing file
Accessing(t) == th[t].pc \in {"load_read", "save_write"}

\* thread t returns from load_db() on the cache hit path in this step
HitReturn(t) == th[t].pc = "load" /\ th'[t].pc \notin {"load", "load_lock"}

C20_OneAccessorHoldingTheLock ==
    /\ \A t \in Threads : Accessing(t) => db_lock = t
    /\ Cardinality({t \in Threads : Accessing(t)}) <= 1

C20_HitPathTakesNoLock ==
    \A t \in Threads : HitReturn(t) => db_lock' = db_lock /\ db_lock # t

\* C20: in every interleaving of the requests, at most one thread at a time
\* reads or writes the backing file, the thread that does holds the lock,
\* and a load() that returns from the cache never takes the lock.
C20_LockDiscipline ==
    []C20_OneAccessorHoldingTheLock /\ [][C20_HitPathTakesNoLock]_vars

\* one thread writes the file under the lock while the other waits for the
\* lock to read it
C20_Witness ==
    \E t \in Threads, u \in Threads :
        /\ th[t].pc = "save_write"
        /\ db_lock = t
        /\ th[u].pc = "load_lock"

-----------------------------------------------------------------------------
(* C21 *)

\* thread t has finished a request that loaded a snapshot and whose save_db
\* wrote the file
FinishedSaving(t) ==
    /\ th[t].pc = "done"
    /\ th[t].loaded # NoSnapshot
    /\ th[t].fresh_save # NoSnapshot

\* t has finished a logout that found a session of its token in the snapshot
\* it loaded, and u a request that loaded the same snapshot and whose save
\* was the last write of the file
SavedOverLogout(t, u) ==
    /\ t # u
    /\ FinishedSaving(t)
    /\ FinishedSaving(u)
    /\ th[t].req.op = "logout"
    /\ \E s \in Range(th[t].loaded.sessions) : s.token = th[t].req.token
    /\ th[u].loaded = th[t].loaded
    /\ th[u].fresh_save = db_file.content
    /\ th[u].fresh_save # th[t].fresh_save

\* the file holds a session of the token the logout of t removed
LogoutLost(t) ==
    \E s \in Range(db_file.content.sessions) : s.token = th[t].req.token

\* C21: two mutating requests can load the same snapshot and save one after
\* the other; whenever they do, both saves return true, both requests report
\* success, and the file after the second save is without the change of the
\* first (here: the session a logout removed is back).
C21_LostUpdateIsSilent ==
    \A t \in Threads, u \in Threads :
        SavedOverLogout(t, u) =>
            /\ LogoutLost(t)
            /\ th[t].ok /\ th[u].ok
            /\ th[t].req.status \in Success
            /\ th[u].req.status \in Success

\* a logout and a registration loaded the same snapshot, the logout saved,
\* the registration saved after it, both answered with success and the
\* session of the logout is in the file
C21_Witness ==
    \E t \in Threads, u \in Threads :
        /\ SavedOverLogout(t, u)
        /\ LogoutLost(t)
        /\ th[u].req.op = "register"
        /\ th[t].req.status = 200
        /\ th[u].req.status = 201

-----------------------------------------------------------------------------
(* C22 *)

\* no two users of the list have the same email
EmailsUnique(us) == \A i, j \in 1..Len(us) : us[i].email = us[j].email => i = j

\* C22: under any interleaving of concurrent register requests, neither the
\* users list of the file nor the one of the cached snapshot holds two users
\* with the same email.
C22_EmailUniqueness ==
    /\ (db_file.exists /\ db_file.valid) => EmailsUnique(db_file.content.users)
    /\ db_cache # NoSnapshot => EmailsUnique(cache_value.users)

-----------------------------------------------------------------------------
(* C23 *)

\* no thread waits for the lock it holds
C23_NoSelfAcquire ==
    \A t \in Threads : th[t].pc \in {"load_lock", "save_lock"} => db_lock # t

\* every request that started returns its response, and with it every
\* load_db, save_db and verify_token it called has returned
C23_Completes ==
    \A t \in Threads : (th[t].pc # "idle") ~> (th[t].pc = "done")

\* a lock that is held is released
C23_LockReleased == (db_lock # NoThread) ~> (db_lock = NoThread)

\* C23: on a readable and writable file and with a fair scheduler, every
\* load, save, verify and request that started completes, the lock is always
\* released again, and no thread tries to take the lock while it holds it,
\* also where load_db falls back to init_db, which calls save_db.
C23_NoOperationBlocks ==
    /\ C23_Completes
    /\ C23_LockReleased
    /\ []C23_NoSelfAcquire

\* load_db found no file and fell back to init_db, whose save_db waits for
\* the lock while the other thread holds it
C23_Witness ==
    \E t \in Threads, u \in Threads :
        /\ th[t].pc = "save_lock"
        /\ Head(th[t].stack) = "init_cache"
        /\ db_lock = u
        /\ u # t

-----------------------------------------------------------------------------
(* C24 *)

\* C24: after any sequence of create, update, delete and sync requests run
\* one at a time, no two orders of the collection carry the same id.
C24_OrderIdsUnique ==
    \A i, j \in 1..Len(orders) : orders[i].id = orders[j].id => i = j

-----------------------------------------------------------------------------
(* C25 *)

\* the last request was a create, update, delete or sync of a user who is
\* not an administrator
WriteByNonAdmin ==
    /\ last.op \in {"create", "update", "delete", "sync"}
    /\ last.user # NoUser
    /\ ~last.user.isAdmin

\* C25: a create, update, delete or sync of a non-admin user leaves the
\* orders whose userId is another user's id as they were: none is added,
\* removed or altered, so no order comes to carry another user's userId.
C25_WriteIsolation ==
    WriteByNonAdmin =>
        \A o \in Range(orders) \cup Range(last.preOrders) :
            o.userId # last.user.id =>
                Occurrences(orders, o) = Occurrences(last.preOrders, o)

-----------------------------------------------------------------------------
(* C27 *)

\* C27: a sync whose payload is exactly the merged set the caller's previous
\* sync returned returns the same set of orders and leaves the collection
\* equal, as a multiset of orders, to what it was after the previous sync.
C27_SyncFixpoint ==
    last.op = "resync" =>
        /\ Range(last.list) = Range(last.payload)
        /\ \A o \in Range(orders) \cup Range(last.preOrders) :
               Occurrences(orders, o) = Occurrences(last.preOrders, o)

-----------------------------------------------------------------------------
(* C26 *)

\* C26: whenever no request is in progress and load_db() would return the
\* cached snapshot (there is one and the file, which parses, is not newer),
\* the cached snapshot equals the content of the file.
C26_CacheEqualsFile ==
    (AtRest /\ cache_fresh /\ db_file.valid) => cache_value = db_file.content

====
